---- MODULE Spec2Model ----
(***************************************************************************)
(* Model of the OpenMdEditor draft store (storageService over the browser  *)
(* localStorage) and of the editor session that drives it (editorStore,    *)
(* the autosave hook and the toolbar).                                     *)
(*                                                                         *)
(* Strings of the program are TLA+ strings; ids are built by the same      *)
(* concatenation the code uses.  A localStorage item is modelled by what   *)
(* getItem / JSON.parse make of it: absent, unparseable, or the JSON text  *)
(* of a mapping.                                                           *)
(***************************************************************************)
EXTENDS Integers, Sequences, FiniteSets, TLC

(***************************************************************************)
(* Bounds of the model.                                                    *)
(***************************************************************************)
\* The clock takes the values 1..MaxTime (milliseconds that differ).
MaxTime == 2
\* A save that would add a draft is enabled only below this many drafts.
MaxDrafts == 2
\* A session is followed for this many steps.
MaxOps == 6
\* Headings per rendered document.
MaxHeadings == 3

\* Document texts the user can produce.
Contents == {"", "a b  c"}
\* File names the user can type into the prompt.
FileNames == {"f.md"}

(***************************************************************************)
(* Values.                                                                 *)
(***************************************************************************)
\* JavaScript null / undefined (getItem of an absent key, a missing argument).
Null == "<null>"

\* An id no save has minted (the tests use 'invalid-id', 'non-existent-id').
GhostId == "ghost-id"

\* A name every JavaScript object inherits from Object.prototype.
ProtoId == "constructor"

\* The "no draft" result (null where a Draft is expected).
NoDraft == [id |-> Null, content |-> "", lastModified |-> "", fileName |-> Null]

\* What obj["constructor"] yields on an object without such an own property:
\* the Object function, which is truthy and has none of a Draft's fields.
ProtoMember == [id |-> Null, content |-> "function Object()", lastModified |-> "",
                fileName |-> Null]

\* JavaScript truthiness of a string | null value.
Truthy(s) == s # Null /\ s # ""

\* The empty object {}.
EmptyMap == [i \in {} |-> NoDraft]

\* localStorage items under DRAFTS_KEY.
AbsentItem == [kind |-> "absent", val |-> EmptyMap]
CorruptItem == [kind |-> "corrupt", val |-> EmptyMap]

\* JSON.stringify of a mapping id -> Draft: the JSON text of that mapping.
JsonStringify(map) == [kind |-> "json", val |-> map]

\* new Date().toISOString(): fixed-width text, distinct for distinct instants.
toISOString(t) == "T" \o ToString(t)

\* ScrollInfo: what a scroll event reports of its surface.  Both panes are
\* 10 high; a short document has nothing to scroll, a long one 200.
ScrollInfo(scrollTop, scrollHeight) ==
  [scrollTop |-> scrollTop, scrollHeight |-> scrollHeight, clientHeight |-> 10]

ScrollInfos ==
  {ScrollInfo(0, 10)} \cup {ScrollInfo(t, 210) : t \in {0, 20, 80, 81}}

\* A ScrollInfo reference that is still null.
NoInfo == [scrollTop |-> 0, scrollHeight |-> 0, clientHeight |-> 0]

\* A scroll command: null, or the fraction num / den of the scrollable range.
NoPercent == [isNull |-> TRUE, num |-> 0, den |-> 1]
Percent(num, den) == [isNull |-> FALSE, num |-> num, den |-> den]

\* headingIdCounts = {}: no slug counted yet.
EmptyCounts == [slug \in {} |-> 0]

\* Before the first render: nothing parsed.
NoRender == [done |-> FALSE, markdown |-> << >>, html |-> "", headings |-> << >>]

VARIABLES
  drafts,           \* localStorage[DRAFTS_KEY]
  current,          \* localStorage[CURRENT_DRAFT_ID_KEY], Null when absent
  now,              \* the wall clock, in milliseconds
  call,             \* the call the last step made (NoCall after an environment step)
  markdown,         \* editorStore.markdown
  currentFileName,  \* editorStore.currentFileName
  currentDraftId,   \* editorStore.currentDraftId
  isSaved,          \* editorStore.isSaved
  timer,            \* useDebouncedCallback: the pending autosave timeouts, oldest
                    \* first, each with the value it was scheduled with
  isInitialMount,   \* useDebouncedCallback.isInitialMount
  docIds,           \* ids written by the successful saves of the open document
  wordCount,        \* editorStore.wordCount
  charCount,        \* editorStore.charCount
  headings,         \* editorStore.headings
  selectedText,     \* editorStore.selectedText
  selectionRange,   \* editorStore.selectionRange
  editorDom,        \* scrollTop, scrollHeight, clientHeight of the editor's scroller
  previewDom,       \* the same of the preview container
  editorScrollInfoRef,    \* EditorLayoutContent.editorScrollInfoRef
  previewScrollInfoRef,   \* EditorLayoutContent.previewScrollInfoRef
  isEditorScrolling,      \* EditorLayoutContent.isEditorScrolling
  isPreviewScrolling,     \* EditorLayoutContent.isPreviewScrolling
  timeout,          \* debounce: the pending syncScroll timeouts, each with its source
  syncTimeoutRef,   \* the pending timeouts that reset a scrolling flag
  scrollToPercent,  \* editorStore.scrollToPercent, the command to the editor
  previewScrollToPercent, \* uiStore.previewScrollToPercent, the command to the preview
  isProgrammaticScroll,   \* PreviewPane.isProgrammaticScroll
  parserHeadings,   \* configureMarkdownParser: the shared headings array
  headingIdCounts,  \* configureMarkdownParser: the shared headingIdCounts
  rendered,         \* the document parseMarkdown was last called with, and its result
  doc,              \* CodeMirrorEditor: view.state.doc, the text the editor shows
  ops               \* number of session steps taken so far

storeVars == <<drafts, current>>
editVars == <<wordCount, charCount, headings, selectedText, selectionRange>>
sessionVars == <<markdown, currentFileName, currentDraftId, isSaved, timer,
                 isInitialMount, docIds, editVars>>
scrollVars == <<editorDom, previewDom, editorScrollInfoRef, previewScrollInfoRef,
                isEditorScrolling, isPreviewScrolling, timeout, syncTimeoutRef,
                scrollToPercent, previewScrollToPercent, isProgrammaticScroll>>
renderVars == <<parserHeadings, headingIdCounts, rendered>>
editorVars == <<doc>>
pageVars == <<scrollVars, renderVars, editorVars>>
vars == <<drafts, current, now, call, markdown, currentFileName,
          currentDraftId, isSaved, timer, isInitialMount, docIds, editVars,
          pageVars, ops>>

(***************************************************************************)
(* storageService                                                          *)
(***************************************************************************)
\* safelyParseJson: null when the key is absent or the text does not parse.
safelyParseJson(item) ==
  IF item.kind = "json"
    THEN [isNull |-> FALSE, map |-> item.val]
    ELSE [isNull |-> TRUE, map |-> EmptyMap]

\* The mapping the service sees; empty when nothing parseable is stored.
StoredMap(item) == safelyParseJson(item).map

\* drafts?.[id] || null on the parsed mapping: an own property, else a member
\* inherited from Object.prototype, else null; null when nothing was parsed.
Lookup(parsed, id) ==
  IF parsed.isNull THEN NoDraft
  ELSE IF id \in DOMAIN parsed.map THEN parsed.map[id]
  ELSE IF id = ProtoId THEN ProtoMember
  ELSE NoDraft

\* Variant: the existing id is ignored and an id is always minted.
DraftIdFor_AlwaysMint(fileName, existingId, timestamp) ==
  IF Truthy(fileName) THEN "file_" \o fileName \o "_" \o timestamp
  ELSE "draft_" \o timestamp

\* The id saveDraft writes under.
DraftIdFor(fileName, existingId, timestamp) ==
  IF Truthy(existingId) THEN existingId
  ELSE IF Truthy(fileName) THEN "file_" \o fileName \o "_" \o timestamp
  ELSE "draft_" \o timestamp

\* saveDraft.  failAt = k makes the k-th localStorage write of the call throw
\* (k = 0: none does).  The result is the storage afterwards and the return.
saveDraft(d, c, content, fileName, existingId, t, failAt) ==
  LET timestamp == toISOString(t)
      id == DraftIdFor(fileName, existingId, timestamp)
      draft == [id |-> id, content |-> content, lastModified |-> timestamp,
                fileName |-> fileName]
      map == StoredMap(d)
      newMap == (id :> draft) @@ map
  IN  IF failAt = 1 THEN [drafts |-> d, current |-> c, ret |-> Null]
      ELSE IF failAt = 2
        THEN [drafts |-> JsonStringify(newMap), current |-> c, ret |-> Null]
      ELSE [drafts |-> JsonStringify(newMap), current |-> id, ret |-> id]

\* Variant: the draft is returned without being made current.
loadDraft_NoSetCurrent(d, c, id, failAt) ==
  LET draft == Lookup(safelyParseJson(d), id)
  IN  [drafts |-> d, current |-> c, ret |-> draft]

\* loadDraft.  failAt = 1: the setItem of the pointer throws.
loadDraft(d, c, id, failAt) ==
  LET draft == Lookup(safelyParseJson(d), id)
  IN  IF draft = NoDraft THEN [drafts |-> d, current |-> c, ret |-> NoDraft]
      ELSE IF failAt = 1 THEN [drafts |-> d, current |-> c, ret |-> NoDraft]
      ELSE [drafts |-> d, current |-> id, ret |-> draft]

\* loadLastDraft.
loadLastDraft(d, c, failAt) ==
  IF ~Truthy(c) THEN [drafts |-> d, current |-> c, ret |-> NoDraft]
  ELSE loadDraft(d, c, c, failAt)

\* clearCurrentDraftId: a throwing removeItem is swallowed.
clearCurrentDraftId(c, failAt) ==
  IF failAt = 1 THEN c ELSE Null

\* setCurrentDraftId: a throwing setItem is swallowed.
setCurrentDraftId(c, id, failAt) ==
  IF failAt = 1 THEN c ELSE id

\* Variant: the draft is reported deleted but the mapping is written back whole.
deleteDraft_KeepsDraft(d, c, id, failAt) ==
  LET parsed == safelyParseJson(d)
  IN  IF Lookup(parsed, id) = NoDraft
        THEN [drafts |-> d, current |-> c, ret |-> FALSE]
      ELSE IF failAt = 1 THEN [drafts |-> d, current |-> c, ret |-> FALSE]
      ELSE [drafts |-> JsonStringify(parsed.map),
            current |-> IF c = id
                          THEN clearCurrentDraftId(c, IF failAt = 2 THEN 1 ELSE 0)
                          ELSE c,
            ret |-> TRUE]

\* deleteDraft.  failAt = 1: the setItem of the mapping throws; failAt = 2:
\* the removeItem of the pointer throws.
deleteDraft(d, c, id, failAt) ==
  LET parsed == safelyParseJson(d)
      newMap == [k \in (DOMAIN parsed.map) \ {id} |-> parsed.map[k]]
  IN  IF Lookup(parsed, id) = NoDraft
        THEN [drafts |-> d, current |-> c, ret |-> FALSE]
      ELSE IF failAt = 1 THEN [drafts |-> d, current |-> c, ret |-> FALSE]
      ELSE [drafts |-> JsonStringify(newMap),
            current |-> IF c = id
                          THEN clearCurrentDraftId(c, IF failAt = 2 THEN 1 ELSE 0)
                          ELSE c,
            ret |-> TRUE]

\* getCurrentDraftId.
getCurrentDraftId(c) == c

\* new Date(lastModified).getTime(): the instant a timestamp text stands for.
getTime(timestamp) == CHOOSE t \in 0..(MaxTime + 1) : toISOString(t) = timestamp

\* getAllDrafts: the stored drafts, newest first.  The sort is stable, so
\* drafts of one instant keep the order of the keys in the stored text; the
\* mapping of the model does not keep that order, and every order of such
\* drafts is a possible result.
getAllDrafts(d) ==
  LET parsed == safelyParseJson(d)
      ids == DOMAIN parsed.map
      n == Cardinality(ids)
      orders == {o \in [1..n -> ids] : \A i, j \in 1..n : i # j => o[i] # o[j]}
      newestFirst(o) ==
        \A i, j \in 1..n :
          i < j => getTime(parsed.map[o[i]].lastModified)
                     >= getTime(parsed.map[o[j]].lastModified)
  IN  IF parsed.isNull THEN {<< >>}
      ELSE {[i \in 1..n |-> parsed.map[o[i]]] : o \in {q \in orders : newestFirst(q)}}

\* The exception of a throwing localStorage call, where no handler of the
\* service catches it.
Thrown == "<thrown>"

(***************************************************************************)
(* The record of the last call.                                            *)
(***************************************************************************)
\* name: the operation; content, fileName, existingId, id: its arguments;
\* hit: whether the id argument named a stored draft when the call began;
\* ioError: whether a localStorage write threw during the call;
\* retId, retDraft, retBool: what the call returned;
\* dialog: what the user answered to the dialog the call showed ("none": no
\* dialog was shown).
Call(name, content, fileName, existingId, id, hit, ioError, retId, retDraft, retBool) ==
  [name |-> name, content |-> content, fileName |-> fileName,
   existingId |-> existingId, id |-> id, hit |-> hit, ioError |-> ioError,
   retId |-> retId, retDraft |-> retDraft, retBool |-> retBool,
   dialog |-> "none", retList |-> << >>]

\* The record of a call that returned a list of drafts.
WithList(c, list) == [c EXCEPT !.retList = list]

\* The record of a call that showed a dialog (window.confirm, window.prompt).
WithDialog(c, shown, confirmed) ==
  [c EXCEPT !.dialog = IF ~shown THEN "none"
                       ELSE IF confirmed THEN "confirmed" ELSE "declined"]

NoCall == Call("none", "", Null, Null, Null, FALSE, FALSE, Null, NoDraft, FALSE)

\* Ids a caller holds from earlier results: those stored and the pointer.
HeldIds == (DOMAIN StoredMap(drafts) \cup {current}) \ {Null, GhostId, ProtoId}

\* Ids a caller can ask for: those it holds and two no save has written.
KnownIds == HeldIds \cup {GhostId, ProtoId}

\* The save may add a draft only while the store is below MaxDrafts.
WithinDrafts(r) == Cardinality(DOMAIN StoredMap(r.drafts)) <= MaxDrafts

(***************************************************************************)
(* Initial state: a fresh browser profile, the store just created.         *)
(***************************************************************************)
WelcomeMarkdown == "# Welcome\n\nStart typing your Markdown!"

\* A character the regular expression \s matches.
IsSpace(ch) == ch \in {" ", "\n", "\t"}

\* String.prototype.trim.
trim(s) ==
  LET keep == {i \in 1..Len(s) : ~IsSpace(SubSeq(s, i, i))}
  IN  IF keep = {} THEN ""
      ELSE SubSeq(s, CHOOSE i \in keep : \A j \in keep : i <= j,
                     CHOOSE i \in keep : \A j \in keep : j <= i)

\* s.split(/\s+/): the pieces between the runs of white space, empty pieces
\* included.
RECURSIVE split(_)
split(s) ==
  LET n == Len(s)
      sp == {i \in 1..n : IsSpace(SubSeq(s, i, i))}
  IN  IF sp = {} THEN <<s>>
      ELSE LET i == CHOOSE k \in sp : \A j \in sp : k <= j
               rest == {k \in (i + 1)..n : ~IsSpace(SubSeq(s, k, k))}
               j == IF rest = {} THEN n + 1
                    ELSE CHOOSE k \in rest : \A m \in rest : k <= m
           IN  <<SubSeq(s, 1, i - 1)>> \o split(SubSeq(s, j, n))

\* Variant: the text is split without being trimmed and every piece counts.
calculateCounts_EveryPiece(text) ==
  [wordCount |-> Len(split(text)), charCount |-> Len(text)]

\* calculateCounts.
calculateCounts(text) ==
  LET words == SelectSeq(split(trim(text)), LAMBDA w : w # "")
  IN  [wordCount |-> Len(words), charCount |-> Len(text)]

\* The empty selection at the start of the document.
NoSelection == [from |-> 0, to |-> 0]

Init ==
  /\ drafts = AbsentItem
  /\ current = Null
  /\ now = 1
  /\ call = NoCall
  /\ markdown = WelcomeMarkdown
  /\ currentFileName = ""
  /\ currentDraftId = Null
  /\ isSaved = TRUE
  /\ timer = << >>
  /\ isInitialMount = TRUE
  /\ docIds = {}
  /\ wordCount = calculateCounts(WelcomeMarkdown).wordCount
  /\ charCount = calculateCounts(WelcomeMarkdown).charCount
  /\ headings = << >>
  /\ selectedText = ""
  /\ selectionRange = NoSelection
  /\ editorDom = ScrollInfo(0, 10)
  /\ previewDom = ScrollInfo(0, 10)
  /\ editorScrollInfoRef = NoInfo
  /\ previewScrollInfoRef = NoInfo
  /\ isEditorScrolling = FALSE
  /\ isPreviewScrolling = FALSE
  /\ timeout = << >>
  /\ syncTimeoutRef = << >>
  /\ scrollToPercent = NoPercent
  /\ previewScrollToPercent = NoPercent
  /\ isProgrammaticScroll = TRUE
  /\ parserHeadings = << >>
  /\ headingIdCounts = EmptyCounts
  /\ rendered = NoRender
  /\ doc = WelcomeMarkdown
  /\ ops = 0

(***************************************************************************)
(* Environment.                                                            *)
(***************************************************************************)
\* No call is waiting for its result to be taken.
Idle == call.name = "none"

\* Time passes.
Tick ==
  /\ Idle
  /\ now < MaxTime
  /\ now' = now + 1
  /\ call' = NoCall
  /\ UNCHANGED <<drafts, current, sessionVars>>

\* The stored drafts text is damaged outside the service.
Corrupt ==
  /\ Idle
  /\ drafts.kind = "json"
  /\ drafts' = CorruptItem
  /\ call' = NoCall
  /\ docIds' = {}
  /\ UNCHANGED <<current, now, markdown, currentFileName, currentDraftId,
                 isSaved, timer, isInitialMount, editVars>>

(***************************************************************************)
(* Direct calls of the service, as its unit tests make them.  A call is    *)
(* one step that leaves its record in call; the caller then takes the      *)
(* result (Return) before it makes the next call.                          *)
(***************************************************************************)
Return ==
  /\ ~Idle
  /\ call' = NoCall
  /\ UNCHANGED <<drafts, current, now, sessionVars>>

ApiSaveDraft ==
  \E content \in Contents, fileName \in FileNames \cup {Null},
     existingId \in HeldIds \cup {Null}, failAt \in 0..2 :
    LET r == saveDraft(drafts, current, content, fileName, existingId, now, failAt)
    IN  /\ Idle
        /\ WithinDrafts(r)
        /\ drafts' = r.drafts
        /\ current' = r.current
        /\ call' = Call("saveDraft", content, fileName, existingId, Null,
                        existingId \in DOMAIN StoredMap(drafts), failAt # 0,
                        r.ret, NoDraft, FALSE)
        /\ UNCHANGED <<now, sessionVars>>

ApiLoadDraft ==
  \E id \in KnownIds, failAt \in 0..1 :
    LET r == loadDraft(drafts, current, id, failAt)
        hit == id \in DOMAIN StoredMap(drafts)
        found == Lookup(safelyParseJson(drafts), id) # NoDraft
    IN  /\ Idle
        /\ drafts' = r.drafts
        /\ current' = r.current
        /\ call' = Call("loadDraft", "", Null, Null, id, hit, found /\ failAt # 0,
                        Null, r.ret, FALSE)
        /\ UNCHANGED <<now, sessionVars>>

ApiLoadLastDraft ==
  \E failAt \in 0..1 :
    LET r == loadLastDraft(drafts, current, failAt)
        hit == current \in DOMAIN StoredMap(drafts)
        found == Lookup(safelyParseJson(drafts), current) # NoDraft
    IN  /\ Idle
        /\ drafts' = r.drafts
        /\ current' = r.current
        /\ call' = Call("loadLastDraft", "", Null, Null, current, hit,
                        found /\ failAt # 0, Null, r.ret, FALSE)
        /\ UNCHANGED <<now, sessionVars>>

ApiDeleteDraft ==
  \E id \in KnownIds, failAt \in 0..2 :
    LET r == deleteDraft(drafts, current, id, failAt)
        hit == id \in DOMAIN StoredMap(drafts)
        found == Lookup(safelyParseJson(drafts), id) # NoDraft
    IN  /\ Idle
        /\ failAt = 2 => (found /\ current = id)
        /\ drafts' = r.drafts
        /\ current' = r.current
        /\ call' = Call("deleteDraft", "", Null, Null, id, hit, found /\ failAt # 0,
                        Null, NoDraft, r.ret)
        /\ UNCHANGED <<now, sessionVars>>

ApiSetCurrentDraftId ==
  \E id \in KnownIds, failAt \in 0..1 :
    /\ Idle
    /\ current' = setCurrentDraftId(current, id, failAt)
    /\ call' = Call("setCurrentDraftId", "", Null, Null, id,
                    id \in DOMAIN StoredMap(drafts), failAt # 0, Null, NoDraft, FALSE)
    /\ UNCHANGED <<drafts, now, sessionVars>>

ApiClearCurrentDraftId ==
  \E failAt \in 0..1 :
    /\ Idle
    /\ current' = clearCurrentDraftId(current, failAt)
    /\ call' = Call("clearCurrentDraftId", "", Null, Null, Null, FALSE,
                    failAt # 0, Null, NoDraft, FALSE)
    /\ UNCHANGED <<drafts, now, sessionVars>>

ApiGetCurrentDraftId ==
  /\ Idle
  /\ call' = Call("getCurrentDraftId", "", Null, Null, Null, FALSE, FALSE,
                  getCurrentDraftId(current), NoDraft, FALSE)
  /\ UNCHANGED <<drafts, current, now, sessionVars>>

ApiGetAllDrafts ==
  \E list \in getAllDrafts(drafts) :
    /\ Idle
    /\ call' = WithList(Call("getAllDrafts", "", Null, Null, Null, FALSE, FALSE,
                             Null, NoDraft, FALSE), list)
    /\ UNCHANGED <<drafts, current, now, sessionVars>>

\* An operation is called while localStorage.getItem throws (storage access
\* is denied to the page).  safelyParseJson catches the exception and yields
\* null, as for an absent item; loadLastDraft catches it; getCurrentDraftId
\* has no handler.
ApiReadFault ==
  \E op \in {"saveDraft", "loadDraft", "loadLastDraft", "getAllDrafts",
              "deleteDraft", "getCurrentDraftId"},
     content \in Contents, fileName \in FileNames \cup {Null}, id \in KnownIds :
    LET s == saveDraft(AbsentItem, current, content, fileName, Null, now, 0)
        l == loadDraft(AbsentItem, current, id, 0)
        x == deleteDraft(AbsentItem, current, id, 0)
    IN  /\ Idle
        /\ op # "saveDraft" => (content = "" /\ fileName = Null)
        /\ op \notin {"loadDraft", "deleteDraft"} => id = GhostId
        /\ drafts' = (IF op = "saveDraft" THEN s.drafts ELSE drafts)
        /\ current' = (IF op = "saveDraft" THEN s.current ELSE current)
        /\ call' =
             (CASE op = "saveDraft" ->
                     Call(op, content, fileName, Null, Null, FALSE, TRUE,
                          s.ret, NoDraft, FALSE)
                [] op = "loadDraft" ->
                     Call(op, "", Null, Null, id, id \in DOMAIN StoredMap(drafts),
                          TRUE, Null, l.ret, FALSE)
                [] op = "loadLastDraft" ->
                     Call(op, "", Null, Null, Null, FALSE, TRUE, Null, NoDraft, FALSE)
                [] op = "getAllDrafts" ->
                     WithList(Call(op, "", Null, Null, Null, FALSE, TRUE, Null,
                                   NoDraft, FALSE),
                              CHOOSE list \in getAllDrafts(AbsentItem) : TRUE)
                [] op = "deleteDraft" ->
                     Call(op, "", Null, Null, id, id \in DOMAIN StoredMap(drafts),
                          TRUE, Null, NoDraft, x.ret)
                [] op = "getCurrentDraftId" ->
                     Call(op, "", Null, Null, Null, FALSE, TRUE, Thrown, NoDraft,
                          FALSE))
        /\ UNCHANGED <<now, sessionVars>>

\* A step outside the session: the session's step count stands still.
Direct(A) == A /\ UNCHANGED <<pageVars, ops>>

Next ==
  \/ Direct(Tick)
  \/ Direct(Corrupt)
  \/ Direct(ApiSaveDraft)
  \/ Direct(ApiLoadDraft)
  \/ Direct(ApiLoadLastDraft)
  \/ Direct(ApiDeleteDraft)
  \/ Direct(ApiSetCurrentDraftId)
  \/ Direct(ApiClearCurrentDraftId)
  \/ Direct(Return)

Spec == Init /\ [][Next]_vars

(***************************************************************************)
(* editorStore, the autosave hook and the toolbar.                         *)
(***************************************************************************)
\* The blank-document template and the untitled prefix; each non-ASCII
\* character of the source is written as one ASCII letter.
NewDocumentMarkdown == "# NewDocmnt\n\n"
UntitledPrefix == "UT ("

\* Variant: the counts of the document shown before are kept.
setCurrentFile_StaleCounts(draft) ==
  [markdown |-> draft.content,
   currentFileName |-> IF Truthy(draft.fileName) THEN draft.fileName
                       ELSE UntitledPrefix \o SubSeq(draft.id, 1, 6) \o ")",
   currentDraftId |-> draft.id,
   isSaved |-> TRUE,
   selectedText |-> "",
   selectionRange |-> NoSelection,
   wordCount |-> wordCount,
   charCount |-> charCount,
   headings |-> << >>]

\* Variant: the session keeps the file name it had instead of the draft's.
setCurrentFile_KeepsFileName(draft) ==
  [markdown |-> draft.content,
   currentFileName |-> currentFileName,
   currentDraftId |-> draft.id,
   isSaved |-> TRUE,
   selectedText |-> "",
   selectionRange |-> NoSelection,
   wordCount |-> calculateCounts(draft.content).wordCount,
   charCount |-> calculateCounts(draft.content).charCount,
   headings |-> << >>]

\* setCurrentFile(draft): the session fields after adopting a draft.
setCurrentFile(draft) ==
  [markdown |-> draft.content,
   currentFileName |-> IF Truthy(draft.fileName) THEN draft.fileName
                       ELSE UntitledPrefix \o SubSeq(draft.id, 1, 6) \o ")",
   currentDraftId |-> draft.id,
   isSaved |-> TRUE,
   selectedText |-> "",
   selectionRange |-> NoSelection,
   wordCount |-> calculateCounts(draft.content).wordCount,
   charCount |-> calculateCounts(draft.content).charCount,
   headings |-> << >>]

\* setCurrentFile(null): the session fields of a blank document.
setCurrentFileNull ==
  [markdown |-> NewDocumentMarkdown, currentFileName |-> "",
   currentDraftId |-> Null, isSaved |-> TRUE,
   selectedText |-> "",
   selectionRange |-> NoSelection,
   wordCount |-> calculateCounts(NewDocumentMarkdown).wordCount,
   charCount |-> calculateCounts(NewDocumentMarkdown).charCount,
   headings |-> << >>]

\* set({...}) of setCurrentFile: the store takes the fields of f.
SessionBecomes(f) ==
  /\ markdown' = f.markdown
  /\ currentFileName' = f.currentFileName
  /\ currentDraftId' = f.currentDraftId
  /\ isSaved' = f.isSaved
  /\ selectedText' = f.selectedText
  /\ selectionRange' = f.selectionRange
  /\ wordCount' = f.wordCount
  /\ charCount' = f.charCount
  /\ headings' = f.headings

\* The store is not written.
SessionKeeps ==
  UNCHANGED <<markdown, currentFileName, currentDraftId, isSaved, editVars>>

\* A clearTimeout that cancels nothing.
clearTimeout_Keeps(pending) == pending

\* clearTimeout(ref): the timeout the reference holds, the one scheduled
\* last, is cancelled if it is still pending.
clearTimeout(pending) ==
  IF pending # << >> THEN SubSeq(pending, 1, Len(pending) - 1) ELSE << >>

\* setTimeout(() => func(arg), wait): one more pending timeout.
setTimeout(pending, arg) == Append(pending, arg)

\* The effect of useAutosave, run after a render in which value or isSaved
\* changed: debouncedSave is called when the content is unsaved; its first
\* call only clears isInitialMount, every later one (re)starts the timer.
AutosaveEffect(md, saved, md2, saved2, tm, im) ==
  IF (md2 # md \/ saved2 # saved) /\ ~saved2
    THEN IF im THEN [timer |-> tm, isInitialMount |-> FALSE]
         ELSE [timer |-> setTimeout(clearTimeout(tm), md2),
               isInitialMount |-> FALSE]
    ELSE [timer |-> tm, isInitialMount |-> im]

\* A saveAction that saves the value its timeout was scheduled with.
saveAction_Scheduled(scheduled, latest) == scheduled

\* saveAction: the value handed to onSave is valueRef.current, the value of
\* the latest render, whatever value the timeout was scheduled with.
saveAction(scheduled, latest) == latest

\* The k-th write of a handler throws: the share of one call that performs
\* writes first+1 .. first+n of the handler.
FailIn(failAt, first, n) ==
  IF failAt > first /\ failAt <= first + n THEN failAt - first ELSE 0

\* handleMarkdownChange -> setMarkdown: the user changes the text.
SetMarkdown ==
  \E value \in Contents \ {markdown} :
    LET e == AutosaveEffect(markdown, isSaved, value, FALSE, timer, isInitialMount)
        counts == calculateCounts(value)
    IN  /\ Idle
        /\ markdown' = value
        /\ isSaved' = FALSE
        /\ wordCount' = counts.wordCount
        /\ charCount' = counts.charCount
        /\ timer' = e.timer
        /\ isInitialMount' = e.isInitialMount
        /\ call' = Call("setMarkdown", value, Null, Null, Null, FALSE, FALSE,
                        Null, NoDraft, FALSE)
        /\ UNCHANGED <<drafts, current, now, currentFileName, currentDraftId,
                       docIds, headings, selectedText, selectionRange>>

\* Heading lists the preview hands to the store after a render.
HeadingLists == {<< >>, <<[id |-> "welcome", text |-> "Welcome", level |-> 1]>>}

\* setHeadings: the preview has rendered and stores the headings it found.
SetHeadings ==
  \E parsedHeadings \in HeadingLists \ {headings} :
    /\ Idle
    /\ headings' = parsedHeadings
    /\ call' = NoCall
    /\ UNCHANGED <<drafts, current, now, markdown, currentFileName,
                   currentDraftId, isSaved, timer, isInitialMount, docIds,
                   wordCount, charCount, selectedText, selectionRange>>

\* handleEditorSelectionChange -> updateSelection: the user selects
\* [from, to) of the text in the editor.
UpdateSelection ==
  \E from \in 0..1, to \in 0..Len(markdown) :
    LET selected == SubSeq(markdown, from + 1, to)
    IN  /\ Idle
        /\ from <= to
        /\ to \in {from, Len(markdown)}
        /\ <<selected, [from |-> from, to |-> to]>> # <<selectedText, selectionRange>>
        /\ selectedText' = selected
        /\ selectionRange' = [from |-> from, to |-> to]
        /\ call' = NoCall
        /\ UNCHANGED <<drafts, current, now, markdown, currentFileName,
                       currentDraftId, isSaved, timer, isInitialMount, docIds,
                       wordCount, charCount, headings>>

\* The autosave timer fires: saveAction -> handleAutoSave(valueRef.current).
AutosaveFire ==
  \E failAt \in 0..2 :
    LET currentValue == saveAction(Head(timer), markdown)
        currentId == getCurrentDraftId(current)
        fileNameToSave == IF Truthy(currentFileName) THEN currentFileName ELSE Null
        existingId == IF Truthy(currentId) THEN currentId ELSE Null
        r == saveDraft(drafts, current, currentValue, fileNameToSave,
                       existingId, now, failAt)
        saved == IF r.ret # Null THEN TRUE ELSE isSaved
        e == AutosaveEffect(markdown, isSaved, markdown, saved, Tail(timer),
                            isInitialMount)
    IN  /\ Idle
        /\ timer # << >>
        /\ WithinDrafts(r)
        /\ drafts' = r.drafts
        /\ current' = r.current
        /\ isSaved' = saved
        /\ timer' = e.timer
        /\ isInitialMount' = e.isInitialMount
        /\ docIds' = IF r.ret # Null THEN docIds \cup {r.ret} ELSE docIds
        /\ call' = Call("autosave", currentValue, fileNameToSave, existingId, Null,
                        existingId \in DOMAIN StoredMap(drafts), failAt # 0,
                        r.ret, NoDraft, r.ret # Null)
        /\ UNCHANGED <<now, markdown, currentFileName, currentDraftId, editVars>>

\* saveCurrentDraft: the manual save.  answer is what the file-name prompt
\* returns (Null: cancelled); it is asked only when no file name is set.
SaveCurrentDraft ==
  \E answer \in FileNames \cup {Null}, failAt \in 0..4 :
    LET needName == ~Truthy(currentFileName)
        fileNameToSave == IF needName THEN answer ELSE currentFileName
        existingId == IF Truthy(currentDraftId) THEN currentDraftId ELSE Null
        s == saveDraft(drafts, current, markdown, fileNameToSave, existingId,
                       now, FailIn(failAt, 0, 2))
        l == loadDraft(s.drafts, s.current, s.ret, FailIn(failAt, 2, 1))
        ok == s.ret # Null /\ l.ret # NoDraft
        f == setCurrentFile(l.ret)
        e == AutosaveEffect(markdown, isSaved, f.markdown, f.isSaved, timer,
                            isInitialMount)
    IN  /\ Idle
        /\ ~needName => answer = Null
        /\ IF needName /\ ~Truthy(answer)
             THEN /\ failAt = 0
                  /\ call' = WithDialog(
                       Call("saveCurrentDraft", markdown, Null, existingId,
                            Null, FALSE, FALSE, Null, NoDraft, FALSE),
                       TRUE, FALSE)
                  /\ UNCHANGED <<drafts, current, now, sessionVars>>
             ELSE /\ WithinDrafts(s)
                  /\ failAt = 3 => s.ret # Null
                  /\ failAt = 4 => ok
                  /\ drafts' = (IF s.ret # Null THEN l.drafts ELSE s.drafts)
                  /\ current' = (IF ~ok THEN (IF s.ret # Null THEN l.current ELSE s.current)
                                 ELSE setCurrentDraftId(l.current, l.ret.id,
                                                        FailIn(failAt, 3, 1)))
                  /\ IF ok THEN SessionBecomes(f) ELSE SessionKeeps
                  /\ timer' = (IF ok THEN e.timer ELSE timer)
                  /\ isInitialMount' = (IF ok THEN e.isInitialMount ELSE isInitialMount)
                  /\ docIds' = (IF ok THEN docIds \cup {s.ret} ELSE docIds)
                  /\ call' = WithDialog(
                       Call("saveCurrentDraft", markdown, fileNameToSave,
                            existingId, Null,
                            existingId \in DOMAIN StoredMap(drafts),
                            failAt # 0, s.ret, l.ret, ok),
                       needName, TRUE)
                  /\ UNCHANGED now

\* Variant: the answer to the confirmation dialog is ignored.
CreateNewFile_IgnoresAnswer ==
  \E confirmed \in BOOLEAN, failAt \in 0..1 :
    LET f == setCurrentFileNull
        e == AutosaveEffect(markdown, isSaved, f.markdown, f.isSaved, timer,
                            isInitialMount)
    IN  /\ Idle
        /\ SessionBecomes(f)
        /\ timer' = e.timer
        /\ isInitialMount' = e.isInitialMount
        /\ current' = clearCurrentDraftId(current, failAt)
        /\ docIds' = {}
        /\ call' = WithDialog(
             Call("createNewFile", "", Null, Null, Null, FALSE,
                  failAt # 0, Null, NoDraft, TRUE),
             TRUE, confirmed)
        /\ UNCHANGED <<drafts, now>>

\* createNewFile: the confirmation dialog is always shown.
CreateNewFile ==
  \E confirmed \in BOOLEAN, failAt \in 0..1 :
    LET f == setCurrentFileNull
        e == AutosaveEffect(markdown, isSaved, f.markdown, f.isSaved, timer,
                            isInitialMount)
    IN  /\ Idle
        /\ IF ~confirmed
             THEN /\ failAt = 0
                  /\ call' = WithDialog(
                       Call("createNewFile", "", Null, Null, Null, FALSE,
                            FALSE, Null, NoDraft, FALSE),
                       TRUE, FALSE)
                  /\ UNCHANGED <<drafts, current, now, sessionVars>>
             ELSE /\ SessionBecomes(f)
                  /\ timer' = e.timer
                  /\ isInitialMount' = e.isInitialMount
                  /\ current' = clearCurrentDraftId(current, failAt)
                  /\ docIds' = {}
                  /\ call' = WithDialog(
                       Call("createNewFile", "", Null, Null, Null, FALSE,
                            failAt # 0, Null, NoDraft, TRUE),
                       TRUE, TRUE)
                  /\ UNCHANGED <<drafts, now>>

\* loadDraft of the store, from the toolbar's list of drafts; the dialog is
\* shown only over unsaved edits.
LoadDraftAction ==
  \E id \in DOMAIN StoredMap(drafts), confirmed \in BOOLEAN, failAt \in 0..2 :
    LET l == loadDraft(drafts, current, id, FailIn(failAt, 0, 1))
        ok == l.ret # NoDraft
        f == setCurrentFile(l.ret)
        e == AutosaveEffect(markdown, isSaved, f.markdown, f.isSaved, timer,
                            isInitialMount)
    IN  /\ Idle
        /\ isSaved => confirmed
        /\ IF ~isSaved /\ ~confirmed
             THEN /\ failAt = 0
                  /\ call' = WithDialog(
                       Call("loadDraftAction", "", Null, Null, id, TRUE,
                            FALSE, Null, NoDraft, FALSE),
                       TRUE, FALSE)
                  /\ UNCHANGED <<drafts, current, now, sessionVars>>
             ELSE /\ failAt = 2 => ok
                  /\ current' = (IF ok THEN setCurrentDraftId(l.current, l.ret.id,
                                                              FailIn(failAt, 1, 1))
                                 ELSE l.current)
                  /\ IF ok THEN SessionBecomes(f) ELSE SessionKeeps
                  /\ timer' = (IF ok THEN e.timer ELSE timer)
                  /\ isInitialMount' = (IF ok THEN e.isInitialMount ELSE isInitialMount)
                  /\ docIds' = (IF ok THEN {} ELSE docIds)
                  /\ call' = WithDialog(
                       Call("loadDraftAction", "", Null, Null, id, TRUE,
                            failAt # 0, Null, l.ret, ok),
                       ~isSaved, TRUE)
                  /\ UNCHANGED <<drafts, now>>

\* handleDeleteDraft: a draft of the toolbar's list is deleted; the session
\* is not told.
HandleDeleteDraft ==
  \E id \in DOMAIN StoredMap(drafts), failAt \in 0..2 :
    LET r == deleteDraft(drafts, current, id, failAt)
    IN  /\ Idle
        /\ failAt = 2 => current = id
        /\ drafts' = r.drafts
        /\ current' = r.current
        /\ docIds' = {}
        /\ call' = Call("handleDeleteDraft", "", Null, Null, id, TRUE,
                        failAt # 0, Null, NoDraft, r.ret)
        /\ UNCHANGED <<now, markdown, currentFileName, currentDraftId, isSaved,
                       timer, isInitialMount, editVars>>

\* The page is loaded again: the store is created anew and loadLastOpenedDraft
\* runs; the autosave hook is mounted afresh.
Reload ==
  \E failAt \in 0..2 :
    LET l == loadLastDraft(drafts, current, FailIn(failAt, 0, 1))
        ok == l.ret # NoDraft
        f == IF ok THEN setCurrentFile(l.ret)
             ELSE [markdown |-> WelcomeMarkdown, currentFileName |-> "",
                   currentDraftId |-> Null, isSaved |-> TRUE,
                   selectedText |-> "", selectionRange |-> NoSelection,
                   wordCount |-> calculateCounts(WelcomeMarkdown).wordCount,
                   charCount |-> calculateCounts(WelcomeMarkdown).charCount,
                   headings |-> << >>]
    IN  /\ Idle
        /\ failAt = 1 => current \in DOMAIN StoredMap(drafts)
        /\ failAt = 2 => ok
        /\ current' = (IF ok THEN setCurrentDraftId(l.current, l.ret.id,
                                                    FailIn(failAt, 1, 1))
                       ELSE l.current)
        /\ SessionBecomes(f)
        /\ timer' = << >>
        /\ isInitialMount' = TRUE
        /\ docIds' = {}
        /\ call' = Call("loadLastOpenedDraft", "", Null, Null, current,
                        current \in DOMAIN StoredMap(drafts), failAt # 0,
                        Null, l.ret, ok)
        /\ UNCHANGED <<drafts, now>>

\* The suggestions the AI preview dialog may hold: a replacement for the
\* selection, an empty one, and a whole new document.
AiSuggestions ==
  {[markdown |-> "zz", type |-> "edit_selection"],
   [markdown |-> "", type |-> "edit_selection"],
   [markdown |-> "zz", type |-> "create"]}

\* String.prototype.substring(start, end): both indices are brought into
\* 0..length and swapped when start is the greater.
substring(str, start, end) ==
  LET clamp(i) == IF i < 0 THEN 0 ELSE IF i > Len(str) THEN Len(str) ELSE i
      lo == IF clamp(start) <= clamp(end) THEN clamp(start) ELSE clamp(end)
      hi == IF clamp(start) <= clamp(end) THEN clamp(end) ELSE clamp(start)
  IN  SubSeq(str, lo + 1, hi)

\* Variant: the suggestion takes the place of the whole text.
newMarkdown_Whole(originalFullMarkdown, from, to, editedSelection) ==
  editedSelection

\* applyToSelectedOnly: the text with [from, to) replaced by the suggestion.
newMarkdown(originalFullMarkdown, from, to, editedSelection) ==
  substring(originalFullMarkdown, 0, from) \o editedSelection
    \o substring(originalFullMarkdown, to, Len(originalFullMarkdown))

\* applyAiSuggestion: the whole suggestion becomes the text.
ApplyAiSuggestion ==
  \E aiSuggestion \in AiSuggestions :
    LET value == aiSuggestion.markdown
        e == AutosaveEffect(markdown, isSaved, value, FALSE, timer, isInitialMount)
        counts == calculateCounts(value)
    IN  /\ Idle
        /\ Truthy(aiSuggestion.markdown)
        /\ markdown' = value
        /\ isSaved' = FALSE
        /\ wordCount' = counts.wordCount
        /\ charCount' = counts.charCount
        /\ timer' = e.timer
        /\ isInitialMount' = e.isInitialMount
        /\ call' = Call("applyAiSuggestion", value, Null, Null, Null, FALSE, FALSE,
                        Null, NoDraft, TRUE)
        /\ UNCHANGED <<drafts, current, now, currentFileName, currentDraftId,
                       docIds, headings, selectedText, selectionRange>>

\* applyToSelectedOnly: the suggestion replaces the selected range; without a
\* suggestion of that kind or without a selection only a warning is shown.
ApplyToSelectedOnly ==
  \E aiSuggestion \in AiSuggestions :
    LET applies == /\ Truthy(aiSuggestion.markdown)
                   /\ Truthy(selectedText)
                   /\ aiSuggestion.type = "edit_selection"
        value == newMarkdown(markdown, selectionRange.from, selectionRange.to,
                             aiSuggestion.markdown)
        e == AutosaveEffect(markdown, isSaved, value, FALSE, timer, isInitialMount)
        counts == calculateCounts(value)
    IN  /\ Idle
        /\ call' = Call("applyToSelectedOnly", aiSuggestion.markdown, Null, Null,
                        Null, FALSE, FALSE, Null, NoDraft, applies)
        /\ IF applies
             THEN /\ markdown' = value
                  /\ isSaved' = FALSE
                  /\ wordCount' = counts.wordCount
                  /\ charCount' = counts.charCount
                  /\ timer' = e.timer
                  /\ isInitialMount' = e.isInitialMount
                  /\ selectedText' = ""
                  /\ selectionRange' = [from |-> 0, to |-> 0]
                  /\ UNCHANGED headings
             ELSE UNCHANGED <<markdown, isSaved, timer, isInitialMount, editVars>>
        /\ UNCHANGED <<drafts, current, now, currentFileName, currentDraftId,
                       docIds>>

\* One step of the session, counted.
Step(A) == ops < MaxOps /\ ops' = ops + 1 /\ A /\ UNCHANGED pageVars

SessionNext ==
  \/ Step(Tick)
  \/ Step(Corrupt)
  \/ Step(SetMarkdown)
  \/ Step(SetHeadings)
  \/ Step(UpdateSelection)
  \/ Step(AutosaveFire)
  \/ Step(SaveCurrentDraft)
  \/ Step(CreateNewFile)
  \/ Step(LoadDraftAction)
  \/ Step(HandleDeleteDraft)
  \/ Step(Reload)
  \/ Direct(Return)

SessionSpec == Init /\ [][SessionNext]_vars

\* The editor with the AI preview dialog: typing, selecting, autosave and
\* the two ways of applying a suggestion.
AiNext ==
  \/ Step(SetMarkdown)
  \/ Step(UpdateSelection)
  \/ Step(AutosaveFire)
  \/ Step(ApplyAiSuggestion)
  \/ Step(ApplyToSelectedOnly)
  \/ Direct(Return)

AiSpec == Init /\ [][AiNext]_vars

(***************************************************************************)
(* The session with the CodeMirror editor bound to it: value={markdown},   *)
(* onChange={handleMarkdownChange}.                                        *)
(***************************************************************************)
\* The user types in the editor: the update listener reports the changed
\* document to onChange and the cursor, an empty selection, to
\* onSelectionChange.
EditorInput ==
  \E value \in Contents \ {doc} : \E cursor \in {0, Len(value)} :
    LET e == AutosaveEffect(markdown, isSaved, value, FALSE, timer, isInitialMount)
        counts == calculateCounts(value)
    IN  /\ Idle
        /\ doc' = value
        /\ markdown' = value
        /\ isSaved' = FALSE
        /\ wordCount' = counts.wordCount
        /\ charCount' = counts.charCount
        /\ selectedText' = ""
        /\ selectionRange' = [from |-> cursor, to |-> cursor]
        /\ timer' = e.timer
        /\ isInitialMount' = e.isInitialMount
        /\ call' = Call("setMarkdown", value, Null, Null, Null, FALSE, FALSE,
                        Null, NoDraft, FALSE)
        /\ UNCHANGED <<drafts, current, now, currentFileName, currentDraftId,
                       docIds, headings>>

\* The effect on the value prop: when the store's text is not the editor's
\* document, the document is replaced by a dispatch of changes; the update
\* listener sees docChanged and calls onChange, so setMarkdown runs with the
\* text the store already holds. The dispatch sets no selection, so
\* onSelectionChange is not called.
EditorMirror ==
  LET e == AutosaveEffect(markdown, isSaved, markdown, FALSE, timer, isInitialMount)
      counts == calculateCounts(markdown)
  IN  /\ Idle
      /\ doc # markdown
      /\ doc' = markdown
      /\ markdown' = markdown
      /\ isSaved' = FALSE
      /\ wordCount' = counts.wordCount
      /\ charCount' = counts.charCount
      /\ timer' = e.timer
      /\ isInitialMount' = e.isInitialMount
      /\ call' = Call("dispatch", markdown, Null, Null, Null, FALSE, FALSE,
                      Null, NoDraft, isSaved)
      /\ UNCHANGED <<drafts, current, now, currentFileName, currentDraftId,
                     docIds, headings, selectedText, selectionRange>>

\* A step of the session while the editor shows the store's text: the effect
\* on the value prop runs before the next event is handled.
Shown(A) == doc = markdown /\ Step(A)

EditorNext ==
  \/ ops < MaxOps /\ ops' = ops + 1 /\ EditorInput /\ UNCHANGED <<scrollVars, renderVars>>
  \/ EditorMirror /\ UNCHANGED <<scrollVars, renderVars, ops>>
  \/ Shown(UpdateSelection)
  \/ Shown(AutosaveFire)
  \/ Shown(SaveCurrentDraft)
  \/ Shown(CreateNewFile)
  \/ Shown(LoadDraftAction)
  \/ Shown(ApplyAiSuggestion)
  \/ Direct(Return)

EditorSpec == Init /\ [][EditorNext]_vars

(***************************************************************************)
(* The draft store with storage that may refuse reads as well as writes,   *)
(* followed for MaxOps calls.                                              *)
(***************************************************************************)
FaultNext ==
  \/ Step(Tick)
  \/ Step(Corrupt)
  \/ Step(ApiSaveDraft)
  \/ Step(ApiLoadDraft)
  \/ Step(ApiLoadLastDraft)
  \/ Step(ApiDeleteDraft)
  \/ Step(ApiSetCurrentDraftId)
  \/ Step(ApiClearCurrentDraftId)
  \/ Step(ApiGetCurrentDraftId)
  \/ Step(ApiGetAllDrafts)
  \/ Step(ApiReadFault)
  \/ Direct(Return)

FaultSpec == Init /\ [][FaultNext]_vars

(***************************************************************************)
(* EditorLayoutContent and PreviewPane in the split view: scroll           *)
(* synchronisation next to the autosave.                                   *)
(***************************************************************************)
\* Math.abs.
abs(x) == IF x < 0 THEN 0 - x ELSE x

\* Math.abs(a / b - c / d) > 0.01 for positive b and d.
Apart(a, b, c, d) == 100 * abs(a * d - c * b) > b * d

NoCommand == [target |-> "none", percent |-> NoPercent]

\* A syncScroll that checks neither what it knows of the panes nor how far
\* apart they are.
syncScroll_Unguarded(source, editorInfo, previewInfo, isEditor, isPreview) ==
  IF source = "editor"
    THEN [target |-> "preview",
          percent |-> Percent(editorInfo.scrollTop,
                              editorInfo.scrollHeight - editorInfo.clientHeight)]
    ELSE [target |-> "editor",
          percent |-> Percent(previewInfo.scrollTop,
                              previewInfo.scrollHeight - previewInfo.clientHeight)]

\* syncScroll(source): the command, if any, that brings the other pane to the
\* percentage of the source.
syncScroll(source, editorInfo, previewInfo, isEditor, isPreview) ==
  LET editorMaxScroll == editorInfo.scrollHeight - editorInfo.clientHeight
      previewMaxScroll == previewInfo.scrollHeight - previewInfo.clientHeight
  IN  IF editorInfo = NoInfo \/ previewInfo = NoInfo THEN NoCommand
      ELSE IF editorMaxScroll <= 0 \/ previewMaxScroll <= 0 THEN NoCommand
      ELSE IF source = "editor" /\ ~isPreview
        THEN IF Apart(editorInfo.scrollTop, editorMaxScroll,
                      previewInfo.scrollTop, previewMaxScroll)
               THEN [target |-> "preview",
                     percent |-> Percent(editorInfo.scrollTop, editorMaxScroll)]
               ELSE NoCommand
      ELSE IF source = "preview" /\ ~isEditor
        THEN IF Apart(previewInfo.scrollTop, previewMaxScroll,
                      editorInfo.scrollTop, editorMaxScroll)
               THEN [target |-> "editor",
                     percent |-> Percent(previewInfo.scrollTop, previewMaxScroll)]
               ELSE NoCommand
      ELSE NoCommand

\* The references the two scroll handlers share.
ScrollRefs ==
  [editorScrollInfoRef |-> editorScrollInfoRef,
   previewScrollInfoRef |-> previewScrollInfoRef,
   isEditorScrolling |-> isEditorScrolling,
   isPreviewScrolling |-> isPreviewScrolling,
   timeout |-> timeout,
   syncTimeoutRef |-> syncTimeoutRef,
   thrown |-> FALSE]

\* handleEditorScroll(info).
handleEditorScroll(info, s) ==
  LET s1 == [s EXCEPT !.editorScrollInfoRef = info]
  IN  IF s.isPreviewScrolling THEN s1
      ELSE [s1 EXCEPT !.isEditorScrolling = TRUE,
                      !.isPreviewScrolling = FALSE,
                      !.timeout = setTimeout(clearTimeout(s.timeout), "editor"),
                      !.syncTimeoutRef = setTimeout(clearTimeout(s.syncTimeoutRef),
                                                    "editor")]

\* A handlePreviewScroll that takes its argument for the scroll state and
\* makes the preview the source whoever is scrolling.
handlePreviewScroll_Takes(event, s) ==
  [s EXCEPT !.previewScrollInfoRef = event,
            !.isPreviewScrolling = TRUE,
            !.isEditorScrolling = FALSE,
            !.timeout = setTimeout(clearTimeout(s.timeout), "preview"),
            !.syncTimeoutRef = setTimeout(clearTimeout(s.syncTimeoutRef), "preview")]

\* handlePreviewScroll(event): the scroll state is read from
\* event.currentTarget; destructuring it throws when the argument has none.
handlePreviewScroll(event, s) ==
  IF "currentTarget" \notin DOMAIN event THEN [s EXCEPT !.thrown = TRUE]
  ELSE LET info == event.currentTarget
           s1 == [s EXCEPT !.previewScrollInfoRef = info]
       IN  IF s.isEditorScrolling THEN s1
           ELSE [s1 EXCEPT !.isPreviewScrolling = TRUE,
                           !.isEditorScrolling = FALSE,
                           !.timeout = setTimeout(clearTimeout(s.timeout), "preview"),
                           !.syncTimeoutRef =
                             setTimeout(clearTimeout(s.syncTimeoutRef), "preview")]

\* A handleScroll that passes the scroll event of the container on as it is,
\* with the scroll state in its currentTarget.
handleScroll_Event(info, programmatic, s) ==
  IF programmatic THEN s ELSE handlePreviewScroll([currentTarget |-> info], s)

\* PreviewPane.handleScroll: a scroll event of the preview container is
\* passed on, as a ScrollInfo, unless a programmatic scroll is under way.
handleScroll(info, programmatic, s) ==
  IF programmatic THEN s ELSE handlePreviewScroll(info, s)

\* The references become those of s.
ScrollRefsBecome(s) ==
  /\ editorScrollInfoRef' = s.editorScrollInfoRef
  /\ previewScrollInfoRef' = s.previewScrollInfoRef
  /\ isEditorScrolling' = s.isEditorScrolling
  /\ isPreviewScrolling' = s.isPreviewScrolling
  /\ timeout' = s.timeout
  /\ syncTimeoutRef' = s.syncTimeoutRef

\* The user scrolls the editor, or its content is laid out anew: the scroll
\* listener of the editor reports the new state.
EditorScroll ==
  \E info \in ScrollInfos \ {editorDom} :
    /\ Idle
    /\ editorDom' = info
    /\ ScrollRefsBecome(handleEditorScroll(info, ScrollRefs))
    /\ call' = Call("handleEditorScroll", "", Null, Null, "editor", FALSE, FALSE,
                    Null, NoDraft, FALSE)
    /\ UNCHANGED <<storeVars, now, sessionVars, previewDom, scrollToPercent,
                   previewScrollToPercent, isProgrammaticScroll, renderVars, editorVars>>

\* The user scrolls the preview, or its content is laid out anew.
PreviewScroll ==
  \E info \in ScrollInfos \ {previewDom} :
    LET s == handleScroll(info, isProgrammaticScroll, ScrollRefs)
    IN  /\ Idle
        /\ previewDom' = info
        /\ ScrollRefsBecome(s)
        /\ call' = Call("handleScroll", "", Null, Null, "preview", FALSE, s.thrown,
                        Null, NoDraft, FALSE)
        /\ UNCHANGED <<storeVars, now, sessionVars, editorDom, scrollToPercent,
                       previewScrollToPercent, isProgrammaticScroll, renderVars, editorVars>>

\* The debounce timeout ends, 50 ms after the last scroll event: syncScroll.
SyncFire ==
  LET source == Head(timeout)
      command == syncScroll(source, editorScrollInfoRef, previewScrollInfoRef,
                            isEditorScrolling, isPreviewScrolling)
  IN  /\ Idle
      /\ timeout # << >>
      /\ timeout' = Tail(timeout)
      /\ previewScrollToPercent' = (IF command.target = "preview" THEN command.percent
                                    ELSE previewScrollToPercent)
      /\ scrollToPercent' = (IF command.target = "editor" THEN command.percent
                             ELSE scrollToPercent)
      /\ call' = Call("syncScroll", "", Null, Null, source, FALSE, FALSE,
                      command.target, NoDraft, command.target # "none")
      /\ UNCHANGED <<storeVars, now, sessionVars, editorDom, previewDom,
                     editorScrollInfoRef, previewScrollInfoRef, isEditorScrolling,
                     isPreviewScrolling, syncTimeoutRef, isProgrammaticScroll, renderVars, editorVars>>

\* The timeout that resets the scrolling flag ends, 150 ms after the last
\* scroll event and so after the debounce timeout started with it.
AttributionReset ==
  /\ Idle
  /\ syncTimeoutRef # << >>
  /\ timeout = << >>
  /\ isEditorScrolling' = (IF Head(syncTimeoutRef) = "editor" THEN FALSE
                           ELSE isEditorScrolling)
  /\ isPreviewScrolling' = (IF Head(syncTimeoutRef) = "preview" THEN FALSE
                            ELSE isPreviewScrolling)
  /\ syncTimeoutRef' = Tail(syncTimeoutRef)
  /\ call' = NoCall
  /\ UNCHANGED <<storeVars, now, sessionVars, editorDom, previewDom,
                 editorScrollInfoRef, previewScrollInfoRef, timeout,
                 scrollToPercent, previewScrollToPercent, isProgrammaticScroll, renderVars, editorVars>>

\* PreviewPane is mounted without a scrollToPercent prop: undefined !== null,
\* so its effect has marked a programmatic scroll; 150 ms later the mark ends.
ProgrammaticScrollEnds ==
  /\ Idle
  /\ isProgrammaticScroll
  /\ isProgrammaticScroll' = FALSE
  /\ call' = NoCall
  /\ UNCHANGED <<storeVars, now, sessionVars, editorDom, previewDom,
                 editorScrollInfoRef, previewScrollInfoRef, isEditorScrolling,
                 isPreviewScrolling, timeout, syncTimeoutRef, scrollToPercent,
                 previewScrollToPercent, renderVars, editorVars>>

\* handleTocHeadingClick -> scrollToHeading(id): when the element with the id
\* is found, scrollIntoView brings the preview to the heading's position, and
\* the container's scroll event goes through handleScroll; otherwise a
\* warning is logged.
ScrollToHeading ==
  \E found \in BOOLEAN, anchor \in ScrollInfos :
    LET moves == found /\ anchor # previewDom
        s == IF moves THEN handleScroll(anchor, isProgrammaticScroll, ScrollRefs)
             ELSE ScrollRefs
    IN  /\ Idle
        /\ anchor.scrollHeight = previewDom.scrollHeight
        /\ previewDom' = (IF moves THEN anchor ELSE previewDom)
        /\ ScrollRefsBecome(s)
        /\ call' = Call("scrollToHeading", "", Null, Null, "preview", found, s.thrown,
                        Null, NoDraft, moves)
        /\ UNCHANGED <<storeVars, now, sessionVars, editorDom, scrollToPercent,
                       previewScrollToPercent, isProgrammaticScroll, renderVars, editorVars>>

\* One step of the page, counted.
PageStep(A) == ops < MaxOps /\ ops' = ops + 1 /\ A

LayoutNext ==
  \/ Step(SetMarkdown)
  \/ Step(AutosaveFire)
  \/ PageStep(EditorScroll)
  \/ PageStep(PreviewScroll)
  \/ PageStep(SyncFire)
  \/ PageStep(AttributionReset)
  \/ PageStep(ProgrammaticScrollEnds)
  \/ PageStep(ScrollToHeading)
  \/ Direct(Return)

LayoutSpec == Init /\ [][LayoutNext]_vars

(***************************************************************************)
(* syncScroll as a function of what the two panes last reported.           *)
(***************************************************************************)
\* Scroll states a pane reports while it is dragged past an end of its
\* range: a scrollTop below 0 or above scrollHeight - clientHeight.
Overscrolled == {ScrollInfo(0 - 5, 210), ScrollInfo(205, 210)}

\* What a scroll information reference can hold: null or a reported state.
ReportedInfos ==
  {NoInfo, ScrollInfo(0, 10), ScrollInfo(20, 210), ScrollInfo(80, 210)} \cup Overscrolled

\* syncScroll(source) runs on some contents of the references; a pane that
\* has reported is where it reported to be.
SyncScrollOf ==
  \E source \in {"editor", "preview"}, editorInfo \in ReportedInfos,
     previewInfo \in ReportedInfos, isEditor \in BOOLEAN, isPreview \in BOOLEAN :
    LET command == syncScroll(source, editorInfo, previewInfo, isEditor, isPreview)
    IN  /\ Idle
        /\ ~(isEditor /\ isPreview)
        /\ editorScrollInfoRef' = editorInfo
        /\ previewScrollInfoRef' = previewInfo
        /\ editorDom' = (IF editorInfo = NoInfo THEN editorDom ELSE editorInfo)
        /\ previewDom' = (IF previewInfo = NoInfo THEN previewDom ELSE previewInfo)
        /\ isEditorScrolling' = isEditor
        /\ isPreviewScrolling' = isPreview
        /\ previewScrollToPercent' = (IF command.target = "preview" THEN command.percent
                                      ELSE previewScrollToPercent)
        /\ scrollToPercent' = (IF command.target = "editor" THEN command.percent
                               ELSE scrollToPercent)
        /\ call' = Call("syncScroll", "", Null, Null, source, FALSE, FALSE,
                        command.target, NoDraft, command.target # "none")
        /\ UNCHANGED <<storeVars, now, sessionVars, timeout, syncTimeoutRef,
                       isProgrammaticScroll, renderVars, editorVars, ops>>

SyncNext ==
  \/ SyncScrollOf
  \/ Direct(Return)

SyncSpec == Init /\ [][SyncNext]_vars

(***************************************************************************)
(* markdownParser: the headings of a document, their ids and their HTML.   *)
(* A document is the sequence of headings the tokenizer finds in it.       *)
(***************************************************************************)
\* What renderer.heading is called with: the heading's inline HTML, its
\* level and its Markdown source.
HeadingTokens ==
  {[text |-> "a", level |-> 1, raw |-> "a"],
   [text |-> "a-1", level |-> 2, raw |-> "a-1"],
   [text |-> "<i>A</i> 1", level |-> 2, raw |-> "*A* 1"],
   [text |-> "constructor", level |-> 1, raw |-> "constructor"]}

Documents == UNION {[1..n -> HeadingTokens] : n \in 0..MaxHeadings}

\* The first position of ch in str, 0 when it does not occur.
IndexOf(str, ch) ==
  LET at == {i \in 1..Len(str) : SubSeq(str, i, i) = ch}
  IN  IF at = {} THEN 0 ELSE CHOOSE i \in at : \A j \in at : i <= j

\* text.replace(/<[^>]*>/g, '').
RECURSIVE stripTags(_)
stripTags(text) ==
  IF text = "" THEN ""
  ELSE LET rest == SubSeq(text, 2, Len(text))
           close == IndexOf(rest, ">")
       IN  IF SubSeq(text, 1, 1) = "<" /\ close > 0
             THEN stripTags(SubSeq(rest, close + 1, Len(rest)))
             ELSE SubSeq(text, 1, 1) \o stripTags(rest)

UpperCase == "ABCDEFGHIJKLMNOPQRSTUVWXYZ"
LowerCase == "abcdefghijklmnopqrstuvwxyz"
Digits == "0123456789"

\* String.prototype.toLowerCase.
RECURSIVE toLowerCase(_)
toLowerCase(str) ==
  IF str = "" THEN ""
  ELSE LET i == IndexOf(UpperCase, SubSeq(str, 1, 1))
       IN  (IF i > 0 THEN SubSeq(LowerCase, i, i) ELSE SubSeq(str, 1, 1))
             \o toLowerCase(SubSeq(str, 2, Len(str)))

\* str.replace(/[chars]+/g, with) when inSet, str.replace(/[^chars]+/g, with)
\* when not: every run of matching characters becomes with.
RECURSIVE replaceRuns(_, _, _, _)
replaceRuns(str, chars, inSet, with) ==
  LET n == Len(str)
      Match(i) == (IndexOf(chars, SubSeq(str, i, i)) > 0) = inSet
  IN  IF str = "" THEN ""
      ELSE IF Match(1)
        THEN LET after == {k \in 2..n : ~Match(k)}
                 j == IF after = {} THEN n + 1
                      ELSE CHOOSE k \in after : \A m \in after : k <= m
             IN  with \o replaceRuns(SubSeq(str, j, n), chars, inSet, with)
        ELSE SubSeq(str, 1, 1) \o replaceRuns(SubSeq(str, 2, n), chars, inSet, with)

\* str.replace(/^-+|-+$/g, '').
trimHyphens(str) ==
  LET keep == {i \in 1..Len(str) : SubSeq(str, i, i) # "-"}
  IN  IF keep = {} THEN ""
      ELSE SubSeq(str, CHOOSE i \in keep : \A j \in keep : i <= j,
                       CHOOSE i \in keep : \A j \in keep : j <= i)

\* slugify.
slugify(text) ==
  LET plainText == trim(stripTags(text))
      hyphened == replaceRuns(toLowerCase(plainText), " \n\t", TRUE, "-")
      cleaned == replaceRuns(hyphened, LowerCase \o UpperCase \o Digits \o "-",
                             FALSE, "")
  IN  trimHyphens(replaceRuns(cleaned, "-", TRUE, "-"))

\* The number a counter holds after ++ was applied to something that is not
\* a number.
NaN == 0 - 1

\* A number within a template literal.
numberText(n) == IF n = NaN THEN "NaN" ELSE ToString(n)

\* The state configureMarkdownParser shares between the calls, with the HTML
\* under construction.
ParserState(headingItems, counts, html) ==
  [headings |-> headingItems, headingIdCounts |-> counts, html |-> html]

\* renderer.heading.  headingIdCounts[slug] is not undefined for a slug that
\* was counted and for one that names a member of Object.prototype.
heading(parser, token) ==
  LET plainText == trim(stripTags(token.text))
      slug == slugify(IF plainText # "" THEN plainText
                      ELSE "heading-" \o ToString(token.level))
      counts == parser.headingIdCounts
      known == slug \in DOMAIN counts \/ slug = ProtoId
      count == IF slug \in DOMAIN counts
                 THEN (IF counts[slug] = NaN THEN NaN ELSE counts[slug] + 1)
               ELSE IF slug = ProtoId THEN NaN
               ELSE 0
      id == IF known THEN slug \o "-" \o numberText(count) ELSE slug
      headingItem == [id |-> id,
                      text |-> IF plainText # "" THEN plainText ELSE token.raw,
                      level |-> token.level]
  IN  ParserState(Append(parser.headings, headingItem),
                  [k \in DOMAIN counts \cup {slug} |->
                     IF k = slug THEN count ELSE counts[k]],
                  parser.html \o "<h" \o ToString(token.level) \o " id=\"" \o id
                    \o "\">" \o token.text \o "</h" \o ToString(token.level)
                    \o ">\n")

\* marked.parse: the renderer is called for each heading in document order.
RECURSIVE parse(_, _)
parse(tokens, parser) ==
  IF tokens = << >> THEN parser
  ELSE parse(Tail(tokens), heading(parser, Head(tokens)))

\* Variant: a render starts from what the render before left behind.
resetParser_Keeps(parser) == [parser EXCEPT !.html = ""]

\* headings.length = 0; headingIdCounts = {}.
resetParser(parser) == ParserState(<< >>, EmptyCounts, "")

\* parseMarkdown(markdown): the result with the state the call leaves behind.
parseMarkdown(tokens, parser) ==
  LET p == parse(tokens, resetParser(parser))
  IN  [html |-> p.html, headings |-> p.headings, parser |-> p]

\* PreviewPane, or the AI preview dialog, renders a document.
Render ==
  \E tokens \in Documents :
    \E r \in {parseMarkdown(tokens, ParserState(parserHeadings, headingIdCounts, ""))} :
        /\ Idle
        /\ parserHeadings' = r.parser.headings
        /\ headingIdCounts' = r.parser.headingIdCounts
        /\ rendered' = [done |-> TRUE, markdown |-> tokens, html |-> r.html,
                        headings |-> r.headings]
        /\ call' = Call("parseMarkdown", "", Null, Null, Null,
                        rendered.done /\ rendered.markdown = tokens, FALSE,
                        Null, NoDraft, TRUE)
        /\ UNCHANGED <<storeVars, now, sessionVars, scrollVars, editorVars, ops>>

RenderNext ==
  \/ Render
  \/ Direct(Return)

RenderSpec == Init /\ [][RenderNext]_vars

(***************************************************************************)
(* Properties of the draft store, checked under Spec.                      *)
(***************************************************************************)

\* C3: a saveDraft whose existingId names a stored draft, and whose storage
\* writes succeed, returns existingId, stores the new content, fileName and
\* lastModified under it, and leaves the set of ids and every other draft as
\* they were.
C3_OverwriteInPlace ==
  [][(call'.name = "saveDraft" /\ call'.hit /\ ~call'.ioError) =>
       LET e == call'.existingId
           before == StoredMap(drafts)
           after == StoredMap(drafts')
       IN  /\ call'.retId = e
           /\ DOMAIN after = DOMAIN before
           /\ \A k \in DOMAIN before \ {e} : after[k] = before[k]
           /\ after[e] = [id |-> e, content |-> call'.content,
                          lastModified |-> toISOString(now),
                          fileName |-> call'.fileName]]_vars

\* C3 witness: an existing draft was overwritten with another text next to a
\* second draft.
C3_Witness ==
  /\ call.name = "saveDraft" /\ call.hit /\ ~call.ioError
  /\ call.retId = call.existingId
  /\ Cardinality(DOMAIN StoredMap(drafts)) = 2
  /\ StoredMap(drafts)[call.existingId].content = call.content
  /\ StoredMap(drafts)[call.existingId].lastModified = toISOString(2)

\* C4: a saveDraft without existingId, or with one that names no stored
\* draft, returns a freshly minted id draft_{timestamp} or
\* file_{fileName}_{timestamp} and never inserts under the unknown existingId.
C4_MintsWhenUnknown ==
  [][(call'.name = "saveDraft" /\ ~call'.hit /\ call'.retId # Null) =>
       /\ call'.retId =
            (IF Truthy(call'.fileName)
               THEN "file_" \o call'.fileName \o "_" \o toISOString(now)
               ELSE "draft_" \o toISOString(now))
       /\ (Truthy(call'.existingId) /\ call'.existingId # call'.retId)
            => call'.existingId \notin DOMAIN StoredMap(drafts')]_vars

\* C5: a saveDraft without existingId (a new logical document) never lands on
\* an id that is already stored: the number of drafts grows by one.
C5_FreshIdsDistinct ==
  [][(call'.name = "saveDraft" /\ call'.existingId = Null /\ call'.retId # Null) =>
       /\ call'.retId \notin DOMAIN StoredMap(drafts)
       /\ Cardinality(DOMAIN StoredMap(drafts')) =
            Cardinality(DOMAIN StoredMap(drafts)) + 1]_vars

\* C6: after a saveDraft that returned an id, and after a loadDraft that
\* returned a draft, the current-draft pointer is that id.
C6_PointerFollowsSaveAndLoad ==
  /\ (call.name = "saveDraft" /\ call.retId # Null) => current = call.retId
  /\ (call.name = "loadDraft" /\ call.retDraft # NoDraft) => current = call.id

\* C6 witness: a draft other than the last saved one was loaded and is current.
C6_Witness ==
  /\ call.name = "loadDraft" /\ call.hit /\ call.retDraft # NoDraft
  /\ current = call.id
  /\ \E k \in DOMAIN StoredMap(drafts) :
       k # call.id /\ StoredMap(drafts)[k].lastModified = toISOString(2)

\* C7: a saveDraft that returns null has persisted nothing: the stored
\* mapping and the pointer are what they were before the call.
C7_NullMeansNothingPersisted ==
  [][(call'.name = "saveDraft" /\ call'.retId = Null) =>
       (StoredMap(drafts') = StoredMap(drafts) /\ current' = current)]_vars

\* C8: loadDraft and deleteDraft of an id that is not stored return null and
\* false and leave the stored drafts and the pointer untouched.
C8_MissingIdIsNoOp ==
  [][/\ (call'.name = "loadDraft" /\ ~call'.hit) =>
          (call'.retDraft = NoDraft /\ drafts' = drafts /\ current' = current)
     /\ (call'.name = "deleteDraft" /\ ~call'.hit) =>
          (call'.retBool = FALSE /\ drafts' = drafts /\ current' = current)]_vars

\* C9: round trip.  After saveDraft(c, f) returned I, loadDraft(I) returns the
\* draft with id I, content c and fileName f; after deleteDraft(I) of a saved
\* draft returned true, loadDraft(I) returns null.
C9_RoundTrip ==
  /\ (call.name = "saveDraft" /\ call.existingId = Null /\ call.retId # Null) =>
       LET r == loadDraft(drafts, current, call.retId, 0).ret
       IN  /\ r.id = call.retId
           /\ r.content = call.content
           /\ r.fileName = call.fileName
  /\ (call.name = "deleteDraft" /\ call.hit /\ call.retBool) =>
       loadDraft(drafts, current, call.id, 0).ret = NoDraft

\* C9 witness: a stored draft was deleted while another one stays.
C9_Witness ==
  /\ call.name = "deleteDraft" /\ call.hit /\ call.retBool
  /\ call.id \notin DOMAIN StoredMap(drafts)
  /\ DOMAIN StoredMap(drafts) # {}

\* C10: loadLastDraft, when its storage write succeeds, returns the draft the
\* pointer names (the one last saved or loaded), and null when the pointer is
\* unset or names no stored draft.
C10_LoadLastFollowsPointer ==
  [][(call'.name = "loadLastDraft" /\ ~call'.ioError) =>
       /\ call'.retDraft =
            (IF Truthy(current) /\ current \in DOMAIN StoredMap(drafts)
               THEN StoredMap(drafts)[current]
               ELSE NoDraft)
       /\ call'.retDraft # NoDraft => current' = call'.retDraft.id]_vars

\* C11: a deleteDraft that returns true removes the draft id and no other,
\* clears the pointer exactly when the pointer was id (and leaves it as it was
\* otherwise), and after the current draft was deleted loadLastDraft returns
\* null.
C11_DeleteFrame ==
  [][(call'.name = "deleteDraft" /\ call'.retBool) =>
       LET before == StoredMap(drafts)
           after == StoredMap(drafts')
       IN  /\ DOMAIN after = DOMAIN before \ {call'.id}
           /\ \A k \in DOMAIN after : after[k] = before[k]
           /\ current' = (IF current = call'.id THEN Null ELSE current)
           /\ current = call'.id =>
                loadLastDraft(drafts', current', 0).ret = NoDraft]_vars

(***************************************************************************)
(* Properties of the session over the draft store, checked under           *)
(* SessionSpec.                                                            *)
(***************************************************************************)
\* C1: the current-draft pointer is unset or names a stored draft, or else it
\* is treated as absent: while it dangles loadLastDraft returns null and no
\* save of the session writes a draft under the dangling id.
C1_PointerValidOrAbsent ==
  [][(Truthy(current) /\ current \notin DOMAIN StoredMap(drafts)) =>
       /\ loadLastDraft(drafts, current, 0).ret = NoDraft
       /\ call'.name \in {"autosave", "saveCurrentDraft"}
            => current \notin DOMAIN StoredMap(drafts')]_vars

\* C2: between two document boundaries (load draft, new file, start-up) every
\* successful save, automatic or manual, writes under one and the same id.
C2_SameIdReused == Cardinality(docIds) <= 1

\* C13: setMarkdown(text) makes text the content, sets isSaved to false and
\* sets the counts to those of text (white-space separated non-empty tokens,
\* length); the headings, the file name, the draft id and the draft store
\* stay as they were.
C13_SetMarkdownFrame ==
  [][call'.name = "setMarkdown" =>
       LET text == call'.content
           tokens == {i \in 1..Len(text) :
                        /\ ~IsSpace(SubSeq(text, i, i))
                        /\ (i = 1 \/ IsSpace(SubSeq(text, i - 1, i - 1)))}
       IN  /\ markdown' = text
           /\ isSaved' = FALSE
           /\ wordCount' = Cardinality(tokens)
           /\ charCount' = Len(text)
           /\ UNCHANGED <<headings, currentFileName, currentDraftId, drafts,
                          current>>]_vars

\* C13 witness: the text of a stored, open draft with headings was replaced by
\* the empty text.
C13_Witness ==
  /\ call.name = "setMarkdown" /\ call.content = ""
  /\ markdown = "" /\ ~isSaved /\ wordCount = 0 /\ charCount = 0
  /\ headings # << >>
  /\ currentDraftId \in DOMAIN StoredMap(drafts)

C15_SetCurrentFile ==
  [][/\ (call'.name \in {"saveCurrentDraft", "loadDraftAction",
                          "loadLastOpenedDraft"} /\ call'.retBool) =>
          /\ isSaved' /\ selectionRange' = NoSelection /\ selectedText' = ""
          /\ headings' = << >>
          /\ charCount' = Len(markdown')
          /\ markdown' = call'.retDraft.content
          /\ currentDraftId' = call'.retDraft.id
          /\ current' = call'.retDraft.id
     /\ (call'.name = "createNewFile" /\ call'.retBool) =>
          /\ isSaved' /\ selectionRange' = NoSelection /\ selectedText' = ""
          /\ headings' = << >>
          /\ charCount' = Len(markdown')
          /\ markdown' = NewDocumentMarkdown
          /\ currentDraftId' = Null
          /\ current' = Null]_vars

\* C16: when the manual save has returned true, the content, the file name
\* and the draft id of the session are those of the draft stored under the
\* store's pointer, and isSaved is true.
C16_SavedSessionMatchesStore ==
  (call.name = "saveCurrentDraft" /\ call.retBool) =>
    /\ current \in DOMAIN StoredMap(drafts)
    /\ StoredMap(drafts)[current].content = markdown
    /\ StoredMap(drafts)[current].fileName = currentFileName
    /\ StoredMap(drafts)[current].id = currentDraftId
    /\ currentDraftId = current
    /\ isSaved

\* C16 witness: a document first stored by an autosave without a file name
\* was then saved by hand under a new name, next to the autosaved draft.
C16_Witness ==
  /\ call.name = "saveCurrentDraft" /\ call.retBool /\ call.dialog = "confirmed"
  /\ Cardinality(DOMAIN StoredMap(drafts)) = 2
  /\ markdown = "a b  c"

\* C17: over unsaved edits createNewFile and loadDraft ask the user before
\* they proceed; when the user declines the confirmation, or cancels the
\* file-name prompt of a manual save, the session and the draft store stay
\* as they were.
C17_DeclineChangesNothing ==
  [][/\ (~isSaved /\ call'.name \in {"createNewFile", "loadDraftAction"}) =>
          call'.dialog \in {"confirmed", "declined"}
     /\ (call'.name \in {"createNewFile", "loadDraftAction", "saveCurrentDraft"}
           /\ call'.dialog = "declined") =>
          UNCHANGED <<markdown, currentFileName, currentDraftId, isSaved,
                      editVars, drafts, current>>]_vars

\* C17 witness: over unsaved edits of an open draft the user declined.
C17_Witness ==
  /\ call.name \in {"createNewFile", "loadDraftAction"}
  /\ call.dialog = "declined"
  /\ ~isSaved /\ markdown = "a b  c"
  /\ currentDraftId \in DOMAIN StoredMap(drafts)

\* C18: createNewFile shows its confirmation dialog only when isSaved is
\* false; when isSaved is true it resets the session to the blank document
\* without asking.
C18_NewFileAsksOnlyIfUnsaved ==
  [][(call'.name = "createNewFile" /\ isSaved) =>
       (call'.dialog = "none" /\ markdown' = NewDocumentMarkdown)]_vars

\* C19: an autosave that fires while the session has no file name writes
\* nothing to the draft store, asks the user nothing and leaves isSaved as it
\* was.
C19_NoAutosaveWithoutFileName ==
  [][(call'.name = "autosave" /\ ~Truthy(currentFileName)) =>
       /\ drafts' = drafts
       /\ current' = current
       /\ isSaved' = isSaved
       /\ call'.dialog = "none"]_vars

\* C20: every setMarkdown, the first after the editor was mounted included,
\* leaves an autosave pending, which fires once the quiet period ends.
C20_ChangeSchedulesAutosave ==
  [][call'.name = "setMarkdown" => timer' # << >>]_vars

\* C21: handleAutoSave is never invoked while isSaved is true: an autosave
\* that is pending when isSaved becomes true does not fire.
C21_NoAutosaveWhenSaved ==
  [][call'.name = "autosave" => ~isSaved]_vars

\* C23: an autosave that fires hands the content the session has at that
\* moment to the store, not the content its timeout was scheduled with;
\* after a successful autosave the stored draft holds the session's content.
C23_AutosaveSavesLiveContent ==
  [][call'.name = "autosave" =>
       /\ call'.content = markdown
       /\ call'.retBool =>
            /\ call'.retId \in DOMAIN StoredMap(drafts')
            /\ StoredMap(drafts')[call'.retId].content = markdown']_vars

\* C23 witness: the timeout was scheduled by an edit, the user then opened a
\* new document, and the autosave stored the new document's template.
C23_Witness ==
  /\ call.name = "autosave" /\ call.retBool
  /\ markdown = NewDocumentMarkdown
  /\ call.retId \in DOMAIN StoredMap(drafts)
  /\ StoredMap(drafts)[call.retId].content = NewDocumentMarkdown

(***************************************************************************)
(* Properties of the Markdown renderer, checked under RenderSpec.          *)
(***************************************************************************)
\* C25: one render of a document yields one heading-list entry per heading,
\* in document order, and the ids of the entries are pairwise distinct, also
\* when a heading's text already ends in a numeric suffix ('a', 'a', 'a-1').
C25_HeadingIdsDistinct ==
  rendered.done =>
    /\ Len(rendered.headings) = Len(rendered.markdown)
    /\ \A i \in 1..Len(rendered.headings) :
         rendered.headings[i].level = rendered.markdown[i].level
    /\ \A i, j \in 1..Len(rendered.headings) :
         i # j => rendered.headings[i].id # rendered.headings[j].id

\* C26: rendering is stateless across calls: a render of the document that
\* was rendered just before gives the same HTML and heading list again, and
\* every render gives what a render by a parser that has rendered nothing
\* before gives.
C26_RenderStateless ==
  [][call'.name = "parseMarkdown" =>
       /\ call'.hit => /\ rendered'.html = rendered.html
                       /\ rendered'.headings = rendered.headings
       /\ \E fresh \in {parseMarkdown(rendered'.markdown,
                                      ParserState(<< >>, EmptyCounts, ""))} :
            /\ rendered'.html = fresh.html
            /\ rendered'.headings = fresh.headings]_vars

\* C26 witness: a document with a repeated heading was rendered a second
\* time in a row, the counter of the repeated slug being in use.
C26_Witness ==
  /\ call.name = "parseMarkdown" /\ call.hit
  /\ Len(rendered.markdown) = 3
  /\ "a" \in DOMAIN headingIdCounts /\ headingIdCounts["a"] = 2
  /\ rendered.headings[3].id = "a-2"

(***************************************************************************)
(* Properties of applying AI suggestions, checked under AiSpec.            *)
(***************************************************************************)
\* C24: applying a suggestion to the selected range [from, to) of the
\* session's current content makes the content content[0..from) +
\* replacement + content[to..end); this change, like applying a whole
\* suggestion, leaves isSaved false and the counts those of the new content.
C24_ApplySplices ==
  [][/\ ( /\ call'.name = "applyToSelectedOnly" /\ call'.retBool
          /\ selectionRange.from <= selectionRange.to
          /\ selectionRange.to <= Len(markdown) ) =>
          markdown' = SubSeq(markdown, 1, selectionRange.from) \o call'.content
                        \o SubSeq(markdown, selectionRange.to + 1, Len(markdown))
     /\ (call'.name = "applyAiSuggestion") => markdown' = call'.content
     /\ ( \/ call'.name = "applyAiSuggestion"
          \/ call'.name = "applyToSelectedOnly" /\ call'.retBool ) =>
          /\ ~isSaved'
          /\ wordCount' = calculateCounts(markdown').wordCount
          /\ charCount' = calculateCounts(markdown').charCount]_vars

\* C24 witness: the part of a saved text after its first character was
\* replaced by the suggestion.
C24_Witness ==
  /\ call.name = "applyToSelectedOnly" /\ call.retBool
  /\ markdown = "azz"
  /\ drafts # AbsentItem
  /\ ~isSaved

\* C37: a manual save, an autosave, a load of a draft, a new file or a
\* deletion of a draft from the toolbar, run without a storage failure in a
\* state where the session's currentDraftId is the draft store's
\* current-draft pointer, leaves the two equal: both null or both the same
\* id.
C37_SessionIdIsPointer ==
  [][( /\ currentDraftId = current
       /\ ~call'.ioError
       /\ call'.name \in {"saveCurrentDraft", "autosave", "loadDraftAction",
                          "createNewFile", "handleDeleteDraft"} ) =>
       currentDraftId' = current']_vars

\* C38: whenever the session is marked saved and has a current draft id,
\* the draft store holds a draft with that id and its content is the
\* session's content: a step of the application that meets no storage
\* failure and does not find the stored text corrupted keeps this so.
C38_SavedIsStored ==
  [][( /\ (isSaved /\ currentDraftId # Null) =>
            /\ currentDraftId \in DOMAIN StoredMap(drafts)
            /\ StoredMap(drafts)[currentDraftId].content = markdown
       /\ drafts.kind # "corrupt" /\ drafts'.kind # "corrupt"
       /\ ~call'.ioError ) =>
       ((isSaved' /\ currentDraftId' # Null) =>
          /\ currentDraftId' \in DOMAIN StoredMap(drafts')
          /\ StoredMap(drafts')[currentDraftId'].content = markdown')]_vars

\* C40: when the session holds a stored draft as it was loaded, with no
\* edit since, a manual save that succeeds leaves the stored drafts the same
\* but for lastModified: the same ids, and for the draft of the session the
\* same content and the same fileName, null included.
C40_LoadSaveKeepsDraft ==
  [][( /\ call'.name = "saveCurrentDraft" /\ call'.retBool /\ ~call'.ioError
       /\ isSaved
       /\ currentDraftId \in DOMAIN StoredMap(drafts)
       /\ markdown = StoredMap(drafts)[currentDraftId].content
       /\ currentFileName =
            setCurrentFile(StoredMap(drafts)[currentDraftId]).currentFileName ) =>
       /\ DOMAIN StoredMap(drafts') = DOMAIN StoredMap(drafts)
       /\ StoredMap(drafts')[currentDraftId].id = currentDraftId
       /\ StoredMap(drafts')[currentDraftId].content =
            StoredMap(drafts)[currentDraftId].content
       /\ StoredMap(drafts')[currentDraftId].fileName =
            StoredMap(drafts)[currentDraftId].fileName]_vars

(***************************************************************************)
(* Properties of the editor page, checked under LayoutSpec.                *)
(***************************************************************************)
\* C22: of each debounced action, the autosave and the scroll
\* synchronisation, at most one invocation is pending at any time, and after
\* a trigger that schedules, the pending one is that of this last trigger: a
\* burst of triggers leaves one invocation to come, not one per trigger.
C22_OnePending ==
  /\ Len(timer) <= 1
  /\ Len(timeout) <= 1
  /\ (call.name = "setMarkdown" /\ timer # << >>) => timer = <<markdown>>
  /\ call.name = "handleEditorScroll" => timeout = <<"editor">>

\* C22 witness: five steps, none of them a save that reached the store, have
\* left one autosave and one synchronisation pending; the text changed at
\* least twice after the change that the hook skips, or the editor was
\* scrolled at least twice.
C22_Witness ==
  /\ call.name = "setMarkdown"
  /\ ops = 5
  /\ drafts = AbsentItem
  /\ previewDom = ScrollInfo(0, 10)
  /\ isProgrammaticScroll
  /\ timer = <<markdown>>
  /\ timeout = <<"editor">>
  /\ syncTimeoutRef = <<"editor">>

\* scrollHeight - clientHeight: how far a surface can be scrolled.
maxScroll(info) == info.scrollHeight - info.clientHeight

\* C27: when the editor or the preview has nothing to scroll (scrollHeight <=
\* clientHeight), a synchronisation that runs issues no scroll command, and
\* would issue none if it were given the true scroll state of both panes;
\* no command carries a percent with the divisor zero.
C27_NoRangeNoCommand ==
  [][call'.name = "syncScroll" =>
       /\ (maxScroll(editorDom) <= 0 \/ maxScroll(previewDom) <= 0) =>
            /\ ~call'.retBool
            /\ scrollToPercent' = scrollToPercent
            /\ previewScrollToPercent' = previewScrollToPercent
            /\ syncScroll(call'.id, editorDom, previewDom, isEditorScrolling,
                          isPreviewScrolling) = NoCommand
       /\ scrollToPercent'.den > 0
       /\ previewScrollToPercent'.den > 0]_vars

\* C27 witness: the editor was scrolled to 40% while the preview had nothing
\* to scroll, and the synchronisation has run.
C27_Witness ==
  /\ call.name = "syncScroll" /\ call.id = "editor"
  /\ editorDom = ScrollInfo(80, 210)
  /\ editorScrollInfoRef = editorDom
  /\ maxScroll(previewDom) <= 0
  /\ ~isProgrammaticScroll
  /\ previewScrollToPercent = NoPercent

\* C28: with the editor at 40% and the preview at 10% of their ranges, the
\* synchronisation that follows an editor scroll event issues the command
\* 40% to the preview and none to the editor.
C28_EditorDrivesPreview ==
  [][( /\ call'.name = "syncScroll" /\ call'.id = "editor"
       /\ isEditorScrolling
       /\ editorDom = ScrollInfo(80, 210)
       /\ editorScrollInfoRef = editorDom
       /\ previewDom = ScrollInfo(20, 210) ) =>
       /\ previewScrollToPercent' = Percent(80, 200)
       /\ scrollToPercent' = scrollToPercent]_vars

\* C29: a scroll event of the preview that is not a programmatic one and
\* arrives while the editor is not the source makes the preview the source
\* and schedules a synchronisation; that synchronisation, with both panes
\* scrollable and more than 1% apart, issues the preview's percent as a
\* command to the editor.
C29_PreviewDrivesEditor ==
  [][/\ (call'.name = "handleScroll" /\ ~isProgrammaticScroll /\ ~isEditorScrolling) =>
          /\ ~call'.ioError
          /\ isPreviewScrolling'
          /\ previewScrollInfoRef' = previewDom'
          /\ timeout' = <<"preview">>
     /\ ( /\ call'.name = "syncScroll" /\ call'.id = "preview"
          /\ maxScroll(editorDom) > 0 /\ maxScroll(previewDom) > 0
          /\ Apart(previewDom.scrollTop, maxScroll(previewDom),
                   editorDom.scrollTop, maxScroll(editorDom)) ) =>
          scrollToPercent' = Percent(previewDom.scrollTop, maxScroll(previewDom))]_vars

\* C30: while one pane is the source of the scrolling, a scroll event of the
\* other pane schedules no synchronisation and leaves the attribution as it
\* is; the editor and the preview are never both marked as the source.
C30_OneSource ==
  [][/\ (call'.name = "handleScroll" /\ isEditorScrolling) =>
          /\ timeout' = timeout
          /\ syncTimeoutRef' = syncTimeoutRef
          /\ isEditorScrolling' /\ ~isPreviewScrolling'
     /\ (call'.name = "handleEditorScroll" /\ isPreviewScrolling) =>
          /\ timeout' = timeout
          /\ syncTimeoutRef' = syncTimeoutRef
          /\ isPreviewScrolling' /\ ~isEditorScrolling'
     /\ ~(isEditorScrolling' /\ isPreviewScrolling')]_vars

\* C30 witness: the preview reported a scroll, not a programmatic one, while
\* the editor was the source and its synchronisation was pending.
C30_Witness ==
  /\ call.name = "handleScroll"
  /\ ~isProgrammaticScroll
  /\ isEditorScrolling /\ ~isPreviewScrolling
  /\ timeout = <<"editor">>
  /\ previewDom = ScrollInfo(20, 210)

\* C31: the step that ends the 150 ms window after the last event of the
\* source leaves neither pane marked as the source; and whenever neither
\* pane is marked, a scroll event of the editor makes the editor the source
\* and a scroll event of the preview that is not a programmatic one makes
\* the preview the source.
C31_ClearedThenEither ==
  [][/\ Len(syncTimeoutRef') < Len(syncTimeoutRef) =>
          ~isEditorScrolling' /\ ~isPreviewScrolling'
     /\ (~isEditorScrolling /\ ~isPreviewScrolling) =>
          /\ call'.name = "handleEditorScroll" =>
               isEditorScrolling' /\ ~isPreviewScrolling'
          /\ (call'.name = "handleScroll" /\ ~isProgrammaticScroll) =>
               isPreviewScrolling' /\ ~isEditorScrolling']_vars

\* C33: a navigation from the table of contents to a heading moves the
\* preview to the heading's position in one scroll, and the scroll event this
\* raises on the preview does not mark the preview as the source, schedules
\* no synchronisation and no reset of the attribution, and produces no
\* scroll command, for the editor or for the preview.
C33_TocOutsideSync ==
  [][call'.name = "scrollToHeading" =>
       /\ ~isPreviewScrolling'
       /\ isEditorScrolling' = isEditorScrolling
       /\ timeout' = timeout
       /\ syncTimeoutRef' = syncTimeoutRef
       /\ scrollToPercent' = scrollToPercent
       /\ previewScrollToPercent' = previewScrollToPercent]_vars

\* C33 witness: a heading was found and the preview moved to it at 40%, while
\* no programmatic scroll was under way and neither pane was the source; the
\* scroll event reached handlePreviewScroll, which threw.
C33_Witness ==
  /\ call.name = "scrollToHeading" /\ call.hit /\ call.retBool
  /\ call.ioError
  /\ previewDom = ScrollInfo(80, 210)
  /\ ~isProgrammaticScroll
  /\ ~isEditorScrolling /\ ~isPreviewScrolling
  /\ timeout = << >>

C36_MirrorKeepsSaved ==
  [][(call'.name = "dispatch" /\ isSaved) =>
       /\ isSaved'
       /\ timer' = timer]_vars

\* C39: the selection range the session holds lies inside its content,
\* 0 <= from <= to <= length of the content, in every state in which the
\* editor shows the session's content.
C39_SelectionInsideContent ==
  doc = markdown =>
    /\ 0 <= selectionRange.from
    /\ selectionRange.from <= selectionRange.to
    /\ selectionRange.to <= Len(markdown)

(***************************************************************************)
(* Properties checked under FaultSpec.                                     *)
(***************************************************************************)
\* C12: no operation of the draft store throws to its caller, whether a
\* storage read or write throws or the stored drafts text is corrupted; a
\* load, loadLast, list or delete that met a throwing read returns null, the
\* empty list or false.
C12_Total ==
  /\ call.retId # Thrown
  /\ (call.ioError /\ call.name \in {"loadDraft", "loadLastDraft"}) =>
       call.retDraft = NoDraft
  /\ (call.ioError /\ call.name = "getAllDrafts") => call.retList = << >>

====
